---- MODULE Spec2Model ----
(***************************************************************************)
(* Model of neuron_core.c: the semaphore and event accessors, the          *)
(* notification-queue (NQ) mmap offset codec and the NQ lifecycle (init /  *)
(* destroy / destroy_all / mmap) of one neuron device.                     *)
(*                                                                         *)
(* 64-bit quantities (mmap offsets, physical addresses) do not fit the     *)
(* model checker's integers, so a u64 is a pair <<hi, lo>> standing for    *)
(* hi * U64_LO + lo with 0 <= lo < U64_LO.                                 *)
(***************************************************************************)
EXTENDS Integers, Sequences, FiniteSets, TLC

VARIABLES
    c_in,    \* codec: first (nc_id, engine_index, nq_type) argument triple
    c_in2,   \* codec: second argument triple
    c_off,   \* codec: offset argument of nc_get_nq_from_mmap_offset
    c_res,   \* codec: results of the calls made so far
    nq_mc,   \* nd->nq_mc[nc_id][nq_id]: chunk held by each slot, NULL if none
    regs,    \* notification cfg_0/cfg_1/cfg_2 registers of every core
    mpset,   \* nd->mpset: every chunk the allocator ever handed out
    vmas,    \* user mappings established by nc_nq_mmap
    inited,  \* the (nc_id, eng_index, nq_type) whose most recent successful
             \* init/destroy call was an init
    last,    \* the call that has just returned (NoCall between calls):
             \* its arguments, its result and what it did
    ncalls,  \* number of calls made so far
    failed,  \* the (nc_id, eng_index, nq_type) whose most recent nc_nq_init
             \* call that has returned to its caller failed in the allocator
    sync     \* the semaphore or event call that has just returned (NoSync
             \* between calls): its arguments, its result and the register
             \* accesses it made

vars == <<c_in, c_in2, c_off, c_res, nq_mc, regs, mpset, vmas, inited, last, ncalls, failed,
          sync>>
codec_vars == <<c_in, c_in2, c_off, c_res>>
dev_vars == <<nq_mc, regs, mpset, vmas, inited, last, ncalls, failed>>
sync_vars == <<sync>>

-----------------------------------------------------------------------------
(* Program constants *)

V1_NC_PER_DEVICE == 4
MAX_NQ_ENGINE == 4
NQ_TYPE_PER_ENGINE == 4
MAX_NQ_SUPPORTED == MAX_NQ_ENGINE * NQ_TYPE_PER_ENGINE

NQ_TYPE_TRACE == 0
NQ_TYPE_NOTIFY == 1
NQ_TYPE_EVENT == 2
NQ_TYPE_ERROR == 3

EINVAL == 22
ENOSPC == 28
ENOMEM == 12

NULL == 0

-----------------------------------------------------------------------------
(* Bounds of the model *)

\* identifiers handed to the codec range over 0 .. bound + ExtraIds
ExtraIds == 1
\* offsets handed to the decoder reach ExtraWindows windows past the end
ExtraWindows == 2

-----------------------------------------------------------------------------
(* u64 arithmetic on pairs <<hi, lo>> *)

U64_LO == 1073741824

U64(hi, lo) == <<hi, lo>>

U64Norm(hi, lo) == <<hi + (lo \div U64_LO), lo % U64_LO>>

U64Add(a, b) == U64Norm(a[1] + b[1], a[2] + b[2])

\* n * a for a small non-negative int n (the int is converted to unsigned long)
U64MulInt(n, a) == U64Norm(n * a[1], n * a[2])

U64Less(a, b) == a[1] < b[1] \/ (a[1] = b[1] /\ a[2] < b[2])

U64Leq(a, b) == a = b \/ U64Less(a, b)

\* a - b for b <= a
U64Sub(a, b) ==
    IF a[2] >= b[2] THEN <<a[1] - b[1], a[2] - b[2]>>
    ELSE <<a[1] - b[1] - 1, a[2] + U64_LO - b[2]>>

\* a / d and a % d for a divisor d that is a whole number of U64_LO units
U64Div(a, d) == a[1] \div d[1]

U64Mod(a, d) == <<a[1] % d[1], a[2]>>

-----------------------------------------------------------------------------
(* NQ mmap offset codec *)

NC_NQ_MMAP_SIZE_PER_NQ == U64(1, 0)
NC_NQ_MMAP_SIZE_PER_ENGINE == U64MulInt(NQ_TYPE_PER_ENGINE, NC_NQ_MMAP_SIZE_PER_NQ)
NC_NQ_MMAP_SIZE_PER_NC == U64MulInt(MAX_NQ_ENGINE, NC_NQ_MMAP_SIZE_PER_ENGINE)
NC_NQ_MMAP_SIZE_PER_ND == U64MulInt(V1_NC_PER_DEVICE, NC_NQ_MMAP_SIZE_PER_NC)

NC_NQ_MMAP_START_OFFSET == U64(0, 0)
NC_NQ_MMAP_END_OFFSET == U64Add(NC_NQ_MMAP_START_OFFSET, NC_NQ_MMAP_SIZE_PER_ND)

\* value of *offset when the function does not write it
UNSET == <<-1, -1>>

nc_get_nq_mmap_offset_SwapStride(nc_id, engine_index, nq_type) ==
    IF nc_id > V1_NC_PER_DEVICE THEN [ret |-> -EINVAL, offset |-> UNSET]
    ELSE IF engine_index > MAX_NQ_ENGINE THEN [ret |-> -EINVAL, offset |-> UNSET]
    ELSE IF nq_type > NQ_TYPE_PER_ENGINE THEN [ret |-> -EINVAL, offset |-> UNSET]
    ELSE [ret |-> 0,
          offset |->
            U64Add(U64Add(U64Add(NC_NQ_MMAP_START_OFFSET,
                                 U64MulInt(nc_id, NC_NQ_MMAP_SIZE_PER_NC)),
                          U64MulInt(engine_index, NC_NQ_MMAP_SIZE_PER_NQ)),
                   U64MulInt(nq_type, NC_NQ_MMAP_SIZE_PER_ENGINE))]

nc_get_nq_mmap_offset(nc_id, engine_index, nq_type) ==
    IF nc_id > V1_NC_PER_DEVICE THEN [ret |-> -EINVAL, offset |-> UNSET]
    ELSE IF engine_index > MAX_NQ_ENGINE THEN [ret |-> -EINVAL, offset |-> UNSET]
    ELSE IF nq_type > NQ_TYPE_PER_ENGINE THEN [ret |-> -EINVAL, offset |-> UNSET]
    ELSE [ret |-> 0,
          offset |->
            U64Add(U64Add(U64Add(NC_NQ_MMAP_START_OFFSET,
                                 U64MulInt(nc_id, NC_NQ_MMAP_SIZE_PER_NC)),
                          U64MulInt(engine_index, NC_NQ_MMAP_SIZE_PER_ENGINE)),
                   U64MulInt(nq_type, NC_NQ_MMAP_SIZE_PER_NQ))]

NO_TRIPLE == <<-1, -1, -1>>

nc_get_nq_from_mmap_offset_LE(offset) ==
    IF U64Less(offset, NC_NQ_MMAP_START_OFFSET) THEN [ret |-> -EINVAL, nq |-> NO_TRIPLE]
    ELSE IF U64Less(NC_NQ_MMAP_END_OFFSET, offset) THEN [ret |-> -EINVAL, nq |-> NO_TRIPLE]
    ELSE
        LET o0 == U64Sub(offset, NC_NQ_MMAP_START_OFFSET)
            nc == U64Div(o0, NC_NQ_MMAP_SIZE_PER_NC)
            o1 == U64Mod(o0, NC_NQ_MMAP_SIZE_PER_NC)
            en == U64Div(o1, NC_NQ_MMAP_SIZE_PER_ENGINE)
            o2 == U64Mod(o1, NC_NQ_MMAP_SIZE_PER_ENGINE)
            ty == U64Div(o2, NC_NQ_MMAP_SIZE_PER_NQ)
        IN [ret |-> 0, nq |-> <<nc, en, ty>>]

nc_get_nq_from_mmap_offset(offset) ==
    IF U64Less(offset, NC_NQ_MMAP_START_OFFSET) THEN [ret |-> -EINVAL, nq |-> NO_TRIPLE]
    ELSE IF U64Leq(NC_NQ_MMAP_END_OFFSET, offset) THEN [ret |-> -EINVAL, nq |-> NO_TRIPLE]
    ELSE
        LET o0 == U64Sub(offset, NC_NQ_MMAP_START_OFFSET)
            nc == U64Div(o0, NC_NQ_MMAP_SIZE_PER_NC)
            o1 == U64Mod(o0, NC_NQ_MMAP_SIZE_PER_NC)
            en == U64Div(o1, NC_NQ_MMAP_SIZE_PER_ENGINE)
            o2 == U64Mod(o1, NC_NQ_MMAP_SIZE_PER_ENGINE)
            ty == U64Div(o2, NC_NQ_MMAP_SIZE_PER_NQ)
        IN [ret |-> 0, nq |-> <<nc, en, ty>>]

-----------------------------------------------------------------------------
(* Arguments the codec is exercised with *)

IdRange(bound) == 0 .. (bound + ExtraIds)

\* every triple of ints around the three bounds
CodecTriples == IdRange(V1_NC_PER_DEVICE) \X IdRange(MAX_NQ_ENGINE) \X IdRange(NQ_TYPE_PER_ENGINE)

\* the triples up to and including each bound
CodecTriples2 == (0 .. V1_NC_PER_DEVICE) \X (0 .. MAX_NQ_ENGINE) \X (0 .. NQ_TYPE_PER_ENGINE)

\* offsets: every window of the device and a few past the end, at the first
\* byte, the second byte and the last byte of the window
CodecOffsets ==
    { U64(hi, lo) : hi \in 0 .. (NC_NQ_MMAP_END_OFFSET[1] + ExtraWindows),
                    lo \in {0, 1, U64_LO - 1} }

NONE == [ret |-> "none"]

CodecIdle == [enc1 |-> NONE, enc2 |-> NONE, rt |-> NONE, dec |-> NONE, re |-> NONE]

InBounds(t) ==
    /\ t[1] >= 0 /\ t[1] < V1_NC_PER_DEVICE
    /\ t[2] >= 0 /\ t[2] < MAX_NQ_ENGINE
    /\ t[3] >= 0 /\ t[3] < NQ_TYPE_PER_ENGINE

-----------------------------------------------------------------------------
(* Codec actions: each applies one of the two functions to the arguments *)

\* nc_get_nq_mmap_offset(c_in)
Encode1 ==
    /\ c_res.enc1 = NONE
    /\ c_res.dec = NONE
    /\ c_off = U64(0, 0)
    /\ c_res' = [c_res EXCEPT !.enc1 = nc_get_nq_mmap_offset(c_in[1], c_in[2], c_in[3])]
    /\ UNCHANGED <<c_in, c_in2, c_off, dev_vars, sync_vars>>

\* nc_get_nq_mmap_offset(c_in2)
Encode2 ==
    /\ c_res.enc1 # NONE
    /\ c_res.enc2 = NONE
    /\ c_res' = [c_res EXCEPT !.enc2 = nc_get_nq_mmap_offset(c_in2[1], c_in2[2], c_in2[3])]
    /\ UNCHANGED <<c_in, c_in2, c_off, dev_vars, sync_vars>>

\* nc_get_nq_from_mmap_offset of the offset the first call produced
DecodeEncoded ==
    /\ c_res.enc2 # NONE
    /\ c_res.enc1.ret = 0
    /\ c_res.rt = NONE
    /\ c_res' = [c_res EXCEPT !.rt = nc_get_nq_from_mmap_offset(c_res.enc1.offset)]
    /\ UNCHANGED <<c_in, c_in2, c_off, dev_vars, sync_vars>>

\* nc_get_nq_from_mmap_offset(c_off)
Decode ==
    /\ c_res.dec = NONE
    /\ c_res.enc1 = NONE
    /\ c_in = <<0, 0, 0>> /\ c_in2 = <<0, 0, 0>>
    /\ c_res' = [c_res EXCEPT !.dec = nc_get_nq_from_mmap_offset(c_off)]
    /\ UNCHANGED <<c_in, c_in2, c_off, dev_vars, sync_vars>>

\* nc_get_nq_mmap_offset of the triple the decoder produced
ReEncode ==
    /\ c_res.dec # NONE
    /\ c_res.dec.ret = 0
    /\ c_res.re = NONE
    /\ c_res' = [c_res EXCEPT !.re = nc_get_nq_mmap_offset(c_res.dec.nq[1], c_res.dec.nq[2],
                                                           c_res.dec.nq[3])]
    /\ UNCHANGED <<c_in, c_in2, c_off, dev_vars, sync_vars>>

-----------------------------------------------------------------------------
(* Device state: chunks, slots, registers *)

\* u8 arithmetic wraps at 256
U8_MOD == 256

PAGE_SIZE == 4096

\* the allocator hands out at most MaxChunks chunks, then fails
MaxChunks == 2

\* a physical address is a pair of 32-bit halves
Pa(high, low) == [high |-> high, low |-> low]

RECURSIVE BitOr(_, _)
BitOr(a, b) ==
    IF a = 0 THEN b
    ELSE IF b = 0 THEN a
    ELSE (IF (a % 2 = 1) \/ (b % 2 = 1) THEN 1 ELSE 0) + 2 * BitOr(a \div 2, b \div 2)

PaOr(a, b) == Pa(BitOr(a.high, b.high), BitOr(a.low, b.low))

PCIEX8_0_BASE == Pa(49152, 0)

\* physical address of the n-th chunk the allocator hands out: page aligned,
\* distinct per chunk, with bits in both halves
McPa(n) == Pa(n - 1, n * PAGE_SIZE)

\* page frames per 2^32 bytes
PFN_PER_HIGH == 1048576

PHYS_PFN(pa) == pa.high * PFN_PER_HIGH + (pa.low \div PAGE_SIZE)

Cores == 0 .. (V1_NC_PER_DEVICE - 1)
NqIds == 0 .. (MAX_NQ_SUPPORTED - 1)

\* eng_index values the register routines are handed: the u8 values that pass
\* the nq_id check together with NQ_TYPE_TRACE or NQ_TYPE_NOTIFY
RegEngines == NqIds \cup ((U8_MOD - NQ_TYPE_PER_ENGINE) .. (U8_MOD - 1))

\* registers: one cfg triplet per (core, engine) for explicit (NOTIFY) and
\* implicit (TRACE) notifications, one per core for event and error
RegKeys ==
    (Cores \X {"impl", "expl"} \X RegEngines) \cup (Cores \X {"event", "error"} \X {0})

RegZero == [cfg_0 |-> 0, cfg_1 |-> 0, cfg_2 |-> 0]

KnownTypes == {NQ_TYPE_TRACE, NQ_TYPE_NOTIFY, NQ_TYPE_EVENT, NQ_TYPE_ERROR}

\* the register triplet the pu_write_*_notification_cfg_N routines address
RegKey(nc_id, eng_index, nq_type) ==
    CASE nq_type = NQ_TYPE_ERROR -> <<nc_id, "error", 0>>
      [] nq_type = NQ_TYPE_EVENT -> <<nc_id, "event", 0>>
      [] nq_type = NQ_TYPE_NOTIFY -> <<nc_id, "expl", eng_index>>
      [] nq_type = NQ_TYPE_TRACE -> <<nc_id, "impl", eng_index>>

\* The register file holds the registers that are not at their reset value
\* RegZero; every other register of RegKeys reads as RegZero.
RegRead(rg, key) == IF key \in DOMAIN rg THEN rg[key] ELSE RegZero

RegStore(rg, key, val) ==
    [k \in IF val = RegZero THEN DOMAIN rg \ {key} ELSE DOMAIN rg \cup {key} |->
        IF k = key THEN val ELSE rg[k]]

\* one register write: the new register file and the event recorded for it
pu_write(rg, key, field, value) ==
    [regs |-> RegStore(rg, key, [RegRead(rg, key) EXCEPT ![field] = value]),
     ev |-> <<"write", key, field, value>>]

\* mc_alloc(&nd->mpset, mc_ptr, size, MEM_LOC_HOST, 0, 0, nc_id)
mc_alloc(pool, nc_id, nq_id, size, ok) ==
    IF ok /\ Len(pool) < MaxChunks
    THEN [ret |-> 0, mc |-> Len(pool) + 1,
          pool |-> Append(pool, [pa |-> McPa(Len(pool) + 1), size |-> size,
                                 live |-> TRUE, frees |-> 0, owner |-> <<nc_id, nq_id>>])]
    ELSE [ret |-> -ENOMEM, mc |-> NULL, pool |-> pool]

\* mc_free(&nd->nq_mc[nc_id][nq_id]): releases the chunk; the caller's slot is cleared
mc_free(pool, mc) ==
    [pool EXCEPT ![mc] = [@ EXCEPT !.live = FALSE, !.frees = @ + 1]]

\* nq_id = (nq_type * NQ_TYPE_PER_ENGINE) + eng_index, stored in a u8
NqId(eng_index, nq_type) == ((nq_type * NQ_TYPE_PER_ENGINE) + eng_index) % U8_MOD

DevState(mcs, rg, pool, ret, trace) ==
    [nq_mc |-> mcs, regs |-> rg, mpset |-> pool, ret |-> ret, trace |-> trace]

-----------------------------------------------------------------------------
(* NQ lifecycle handlers, as functions from the device state before the call
   to the device state after it, the return value and the events of the call *)

\* the three register writes of nc_nq_init's switch, in program order
InitWrites_SizeFirst(rg, key, low, high, size) ==
    LET w2 == pu_write(rg, key, "cfg_2", size)
        w0 == pu_write(w2.regs, key, "cfg_0", low)
        w1 == pu_write(w0.regs, key, "cfg_1", high)
    IN [regs |-> w1.regs, evs |-> <<w2.ev, w0.ev, w1.ev>>]

InitWrites(rg, key, low, high, size) ==
    LET w0 == pu_write(rg, key, "cfg_0", low)
        w1 == pu_write(w0.regs, key, "cfg_1", high)
        w2 == pu_write(w1.regs, key, "cfg_2", size)
    IN [regs |-> w2.regs, evs |-> <<w0.ev, w1.ev, w2.ev>>]

\* if (*mc_ptr == NULL): the slot needs a chunk
InitNeedsAlloc_Always(mc) == TRUE

InitNeedsAlloc(mc) == mc = NULL

\* if (ret) return ret;
InitAllocError_Einval(ret) == -EINVAL

InitAllocError(ret) == ret

nc_nq_init(mcs, rg, pool, nc_id, eng_index, nq_type, size, alloc_ok) ==
    IF nc_id >= V1_NC_PER_DEVICE THEN DevState(mcs, rg, pool, -EINVAL, <<>>)
    ELSE
    LET nq_id == NqId(eng_index, nq_type) IN
    IF nq_id >= MAX_NQ_SUPPORTED THEN DevState(mcs, rg, pool, -EINVAL, <<>>)
    ELSE
    LET empty == InitNeedsAlloc(mcs[nc_id][nq_id])
        a == IF empty THEN mc_alloc(pool, nc_id, nq_id, size, alloc_ok)
             ELSE [ret |-> 0, mc |-> mcs[nc_id][nq_id], pool |-> pool]
        aev == IF empty THEN << <<"mc_alloc", a.ret, a.mc>> >> ELSE <<>>
    IN
    IF a.ret # 0 THEN DevState(mcs, rg, a.pool, InitAllocError(a.ret), aev)
    ELSE
    LET mcs2 == [mcs EXCEPT ![nc_id][nq_id] = a.mc]
        queue_pa == PaOr(a.pool[a.mc].pa, PCIEX8_0_BASE)
        low == queue_pa.low
        high == queue_pa.high
    IN
    IF nq_type \in KnownTypes
    THEN LET w == InitWrites(rg, RegKey(nc_id, eng_index, nq_type), low, high, size)
         IN DevState(mcs2, w.regs, a.pool, 0, aev \o w.evs)
    ELSE DevState(mcs2, rg, a.pool, -1, aev)

\* the three register writes of nc_nq_destroy's switch, in program order
DestroyWrites_AddressFirst(rg, key) ==
    LET w0 == pu_write(rg, key, "cfg_0", 0)
        w1 == pu_write(w0.regs, key, "cfg_1", 0)
        w2 == pu_write(w1.regs, key, "cfg_2", 0)
    IN [regs |-> w2.regs, evs |-> <<w0.ev, w1.ev, w2.ev>>]

DestroyWrites(rg, key) ==
    LET w2 == pu_write(rg, key, "cfg_2", 0)
        w0 == pu_write(w2.regs, key, "cfg_0", 0)
        w1 == pu_write(w0.regs, key, "cfg_1", 0)
    IN [regs |-> w1.regs, evs |-> <<w2.ev, w0.ev, w1.ev>>]

\* if (nd->nq_mc[nc_id][nq_id] == NULL) return 0;
DestroyEmpty_Einval(mcs, rg, pool) == DevState(mcs, rg, pool, -EINVAL, <<>>)

DestroyEmpty(mcs, rg, pool) == DevState(mcs, rg, pool, 0, <<>>)

nc_nq_destroy(mcs, rg, pool, nc_id, eng_index, nq_type) ==
    LET nq_id == NqId(eng_index, nq_type) IN
    IF nc_id >= V1_NC_PER_DEVICE \/ nq_id >= MAX_NQ_SUPPORTED
    THEN DevState(mcs, rg, pool, -EINVAL, <<>>)
    ELSE IF mcs[nc_id][nq_id] = NULL THEN DestroyEmpty(mcs, rg, pool)
    ELSE IF nq_type \in KnownTypes
    THEN LET w == DestroyWrites(rg, RegKey(nc_id, eng_index, nq_type))
             mc == mcs[nc_id][nq_id]
         IN DevState([mcs EXCEPT ![nc_id][nq_id] = NULL], w.regs, mc_free(pool, mc), 0,
                     w.evs \o << <<"msleep", 1>>, <<"mc_free", mc>> >>)
    ELSE DevState(mcs, rg, pool, -1, <<>>)

\* the i-th (nc_id, eng_index, nq_type) of nc_nq_destroy_all's three nested loops
DestroyAllArgs(i) ==
    << i \div (MAX_NQ_ENGINE * NQ_TYPE_PER_ENGINE),
       (i \div NQ_TYPE_PER_ENGINE) % MAX_NQ_ENGINE,
       i % NQ_TYPE_PER_ENGINE >>

\* number of iterations of the three nested loops
DestroyAllCount_SkipLastCore == (V1_NC_PER_DEVICE - 1) * MAX_NQ_ENGINE * NQ_TYPE_PER_ENGINE

DestroyAllCount == V1_NC_PER_DEVICE * MAX_NQ_ENGINE * NQ_TYPE_PER_ENGINE

\* iterations i, i+1, ... of the loops; st carries the state, the events so
\* far and the list of calls made with their results
RECURSIVE DestroyAllFrom(_, _)
DestroyAllFrom(i, st) ==
    IF i >= DestroyAllCount THEN st
    ELSE LET t == DestroyAllArgs(i)
             d == nc_nq_destroy(st.nq_mc, st.regs, st.mpset, t[1], t[2], t[3])
             st2 == [nq_mc |-> d.nq_mc, regs |-> d.regs, mpset |-> d.mpset, ret |-> 0,
                     trace |-> st.trace \o d.trace,
                     calls |-> Append(st.calls, <<t, d.ret>>)]
         IN \* the result of the call is ignored: the loop always goes on
            IF Len(st2.calls) > i THEN DestroyAllFrom(i + 1, st2) ELSE st2

nc_nq_destroy_all(mcs, rg, pool) ==
    DestroyAllFrom(0, [nq_mc |-> mcs, regs |-> rg, mpset |-> pool, ret |-> 0,
                       trace |-> <<>>, calls |-> <<>>])

NoVma == [mapped |-> FALSE, pfn |-> 0, size |-> 0, vm_flags |-> {}]

\* vm_flags of the vma handed to nc_nq_mmap
VmaFlagsIn == {"VM_READ", "VM_SHARED"}

\* vma->vm_flags |= VM_DONTEXPAND | VM_DONTDUMP | VM_DONTCOPY
MmapVmFlags_NoDontCopy(vm_flags) == vm_flags \cup {"VM_DONTEXPAND", "VM_DONTDUMP"}

MmapVmFlags(vm_flags) == vm_flags \cup {"VM_DONTEXPAND", "VM_DONTDUMP", "VM_DONTCOPY"}

\* fault: should_fail() of the fault-injection build; remap_ret: result of remap_pfn_range
nc_nq_mmap(mcs, pool, nc_id, eng_index, nq_type, fault, remap_ret) ==
    IF nc_id >= V1_NC_PER_DEVICE THEN [ret |-> -EINVAL, vma |-> NoVma]
    ELSE
    LET nq_id == NqId(eng_index, nq_type) IN
    IF nq_id >= MAX_NQ_SUPPORTED THEN [ret |-> -EINVAL, vma |-> NoVma]
    ELSE
    LET mc == mcs[nc_id][nq_id] IN
    IF mc = NULL THEN [ret |-> -EINVAL, vma |-> NoVma]
    ELSE IF fault THEN [ret |-> -ENOSPC, vma |-> NoVma]
    ELSE IF remap_ret # 0 THEN [ret |-> remap_ret, vma |-> NoVma]
    ELSE [ret |-> 0,
          vma |-> [mapped |-> TRUE, pfn |-> PHYS_PFN(pool[mc].pa), size |-> pool[mc].size,
                   vm_flags |-> MmapVmFlags(VmaFlagsIn)]]

-----------------------------------------------------------------------------
(* Arguments the lifecycle handlers are called with *)

\* at most MaxCalls calls are made on the device
MaxCalls == 3

\* a u32 nq_type whose product with NQ_TYPE_PER_ENGINE is a multiple of 256
WrapType == U8_MOD \div NQ_TYPE_PER_ENGINE

\* (nc_id, eng_index, nq_type) with every identifier inside its bound: one
\* queue of each type on core 0, a second engine's queue for the per-core
\* EVENT type, and the last engine's NOTIFY queue on the last core
ArgQueuesIn ==
    { <<0, 0, NQ_TYPE_TRACE>>, <<0, 0, NQ_TYPE_NOTIFY>>, <<0, 0, NQ_TYPE_EVENT>>,
      <<0, 1, NQ_TYPE_EVENT>>, <<0, 0, NQ_TYPE_ERROR>>,
      <<V1_NC_PER_DEVICE - 1, MAX_NQ_ENGINE - 1, NQ_TYPE_NOTIFY>> }

\* (u8 nc_id, u8 eng_index, u32 nq_type) with an identifier at or past its bound
ArgQueuesOut ==
    { <<V1_NC_PER_DEVICE, 0, NQ_TYPE_TRACE>>,    \* first core id past the last core
      <<0, MAX_NQ_ENGINE, NQ_TYPE_TRACE>>,       \* first engine index past the last
      <<0, MAX_NQ_ENGINE, NQ_TYPE_ERROR>>,       \* the same, with the last type
      <<0, U8_MOD - 1, NQ_TYPE_TRACE>>,          \* the largest u8 engine index
      <<0, 0, NQ_TYPE_PER_ENGINE>>,              \* first type value past the last
      <<0, 0, WrapType>> }                       \* a type whose nq_id wraps to 0

ArgQueues == ArgQueuesIn \cup ArgQueuesOut

\* u32 size
ArgSizes == {PAGE_SIZE, 2 * PAGE_SIZE}

\* what the collaborators of nc_nq_mmap do: nothing goes wrong, the injected
\* fault fires, or remap_pfn_range fails
MmapOutcomes == {"ok", "fault", "remap_fail"}

NoCall ==
    [op |-> "none", nc_id |-> 0, eng_index |-> 0, nq_type |-> 0, size |-> 0,
     ret |-> 0, trace |-> <<>>, calls |-> <<>>, vma |-> NoVma,
     slot_before |-> NULL, outcome |-> "ok"]

Call(op, nc_id, eng_index, nq_type, size, ret, trace, calls, vma, slot_before, outcome) ==
    [op |-> op, nc_id |-> nc_id, eng_index |-> eng_index, nq_type |-> nq_type,
     size |-> size, ret |-> ret, trace |-> trace, calls |-> calls, vma |-> vma,
     slot_before |-> slot_before, outcome |-> outcome]

\* the chunk in the slot the arguments select, NULL when they select none
SlotOf(mcs, nc_id, eng_index, nq_type) ==
    IF nc_id \in Cores /\ NqId(eng_index, nq_type) \in NqIds
    THEN mcs[nc_id][NqId(eng_index, nq_type)]
    ELSE NULL

DevInit ==
    /\ nq_mc = [c \in Cores |-> [q \in NqIds |-> NULL]]
    /\ regs = [k \in {} |-> RegZero]
    /\ mpset = <<>>
    /\ vmas = {}
    /\ inited = {}
    /\ last = NoCall
    /\ ncalls = 0
    /\ failed = {}

CodecUnused ==
    /\ c_in = <<0, 0, 0>>
    /\ c_in2 = <<0, 0, 0>>
    /\ c_off = U64(0, 0)
    /\ c_res = CodecIdle

-----------------------------------------------------------------------------
(* Lifecycle actions: one whole call each, serialised by the device lock *)

\* the allocator's answer matters only when the call reaches mc_alloc
AllocOutcomes(nc_id, eng_index, nq_type) ==
    IF nc_id \in Cores /\ NqId(eng_index, nq_type) \in NqIds
       /\ SlotOf(nq_mc, nc_id, eng_index, nq_type) = NULL
    THEN BOOLEAN ELSE {TRUE}

\* the collaborators' answers matter only when the call finds a chunk
MmapOutcomesFor(nc_id, eng_index, nq_type) ==
    IF SlotOf(nq_mc, nc_id, eng_index, nq_type) # NULL THEN MmapOutcomes ELSE {"ok"}

\* a call starts when the previous one has returned and its caller has
\* released the device lock
Enter ==
    /\ last = NoCall
    /\ ncalls < MaxCalls
    /\ ncalls' = ncalls + 1

\* nc_nq_init with arguments from Q
NcNqInit(Q) ==
    /\ Enter
    /\ \E q \in Q, size \in ArgSizes :
      \E alloc_ok \in AllocOutcomes(q[1], q[2], q[3]) :
        LET nc_id == q[1]
            eng_index == q[2]
            nq_type == q[3]
        IN \E r \in {nc_nq_init(nq_mc, regs, mpset, nc_id, eng_index, nq_type, size, alloc_ok)} :
           /\ nq_mc' = r.nq_mc
           /\ regs' = r.regs
           /\ mpset' = r.mpset
           /\ inited' = IF r.ret = 0 THEN inited \cup {q} ELSE inited
           /\ last' = Call("init", nc_id, eng_index, nq_type, size, r.ret, r.trace, <<>>,
                           NoVma, SlotOf(nq_mc, nc_id, eng_index, nq_type),
                           IF alloc_ok THEN "ok" ELSE "alloc_fail")
           /\ UNCHANGED <<vmas, failed, codec_vars, sync_vars>>

\* nc_nq_destroy with arguments from Q
NcNqDestroy(Q) ==
    /\ Enter
    /\ \E q \in Q :
        LET nc_id == q[1]
            eng_index == q[2]
            nq_type == q[3]
        IN \E r \in {nc_nq_destroy(nq_mc, regs, mpset, nc_id, eng_index, nq_type)} :
           /\ nq_mc' = r.nq_mc
           /\ regs' = r.regs
           /\ mpset' = r.mpset
           /\ inited' = IF r.ret = 0 THEN inited \ {q} ELSE inited
           /\ last' = Call("destroy", nc_id, eng_index, nq_type, 0, r.ret, r.trace, <<>>,
                           NoVma, SlotOf(nq_mc, nc_id, eng_index, nq_type), "ok")
           /\ UNCHANGED <<vmas, failed, codec_vars, sync_vars>>

NcNqDestroyAll ==
    /\ Enter
    /\ \E r \in {nc_nq_destroy_all(nq_mc, regs, mpset)} :
       /\ nq_mc' = r.nq_mc
       /\ regs' = r.regs
       /\ mpset' = r.mpset
       /\ inited' = inited \ {r.calls[i][1] : i \in {j \in DOMAIN r.calls : r.calls[j][2] = 0}}
       /\ last' = Call("destroy_all", 0, 0, 0, 0, 0, r.trace, r.calls, NoVma, NULL, "ok")
       /\ UNCHANGED <<vmas, failed, codec_vars, sync_vars>>

\* nc_nq_mmap with arguments from Q
NcNqMmap(Q) ==
    /\ Enter
    /\ \E q \in Q :
      \E outcome \in MmapOutcomesFor(q[1], q[2], q[3]) :
        LET nc_id == q[1]
            eng_index == q[2]
            nq_type == q[3]
        IN \E r \in {nc_nq_mmap(nq_mc, mpset, nc_id, eng_index, nq_type, outcome = "fault",
                                 IF outcome = "remap_fail" THEN -EINVAL ELSE 0)} :
           /\ vmas' = IF r.vma.mapped THEN vmas \cup {[pfn |-> r.vma.pfn, size |-> r.vma.size]}
                      ELSE vmas
           /\ last' = Call("mmap", nc_id, eng_index, nq_type, 0, r.ret, <<>>, <<>>, r.vma,
                           SlotOf(nq_mc, nc_id, eng_index, nq_type), outcome)
           /\ UNCHANGED <<nq_mc, regs, mpset, inited, failed, codec_vars, sync_vars>>

\* the call was an nc_nq_init whose mc_alloc failed
AllocFailed(call) ==
    /\ call.op = "init"
    /\ Len(call.trace) >= 1
    /\ call.trace[1][1] = "mc_alloc"
    /\ call.trace[1][2] # 0

\* the caller takes the result and releases the device lock
Return ==
    /\ last # NoCall
    /\ last' = NoCall
    /\ failed' = IF AllocFailed(last)
                 THEN failed \cup {<<last.nc_id, last.eng_index, last.nq_type>>}
                 ELSE IF last.op = "init" /\ last.ret = 0
                      THEN failed \ {<<last.nc_id, last.eng_index, last.nq_type>>}
                      ELSE failed
    /\ UNCHANGED <<nq_mc, regs, mpset, vmas, inited, ncalls, codec_vars, sync_vars>>

-----------------------------------------------------------------------------
(* Semaphore and event accessors *)

NC_SEMAPHORE_SIZE == 4
NC_EVENT_SIZE == 4

\* number of semaphores and of events of one neuron core
V1_SEMAPHORE_COUNT == 32
V1_EVENTS_COUNT == 256

\* byte offsets of the event block and of the four semaphore blocks inside
\* the register block of one neuron core
MMAP_NC_EVENT_OFFSET == 40894464
MMAP_NC_SEMA_READ_OFFSET == MMAP_NC_EVENT_OFFSET + 4096
MMAP_NC_SEMA_SET_OFFSET == MMAP_NC_SEMA_READ_OFFSET + 1024
MMAP_NC_SEMA_INCR_OFFSET == MMAP_NC_SEMA_SET_OFFSET + 1024
MMAP_NC_SEMA_DECR_OFFSET == MMAP_NC_SEMA_INCR_OFFSET + 1024

\* largest u16
U16_MAX == 65535

\* [nc, off] stands for the offset MMAP_P_OFFSET + (nc * MMAP_NC_SIZE) + off
\* from nd->npdev.bar2
nc_get_axi_offset(nc_index) == [nc |-> nc_index, off |-> 0]

\* nd->npdev.bar2 + nc_get_axi_offset(nc_id)
nc_get_semaphore_base(nc_id) == nc_get_axi_offset(nc_id)

\* addr += n
AddrAdd(addr, n) == [addr EXCEPT !.off = @ + n]

nc_get_event_addr(nc_id, event_index) ==
    LET base == AddrAdd(nc_get_axi_offset(nc_id), MMAP_NC_EVENT_OFFSET)
    IN AddrAdd(base, event_index * NC_EVENT_SIZE)

\* no value stored through the result pointer
NO_RESULT == -1

\* what a call did: its return value, its register accesses in program order
\* and the value stored through result
SyncRes(ret, accesses, result) == [ret |-> ret, accesses |-> accesses, result |-> result]

\* fw_io_read_csr_array(&addr, result, 1): one register read; ok and value are
\* what the device answers
fw_io_read_csr_array(addr, ok, value) ==
    IF ok THEN SyncRes(0, << <<"read", addr>> >>, value)
    ELSE SyncRes(-1, << <<"read", addr>> >>, NO_RESULT)

\* writel(value, addr)
writel(value, addr) == SyncRes(0, << <<"write", addr, value>> >>, NO_RESULT)

\* if (semaphore_index > V1_SEMAPHORE_COUNT)
SemaphoreIndexBad_GE(semaphore_index) == semaphore_index >= V1_SEMAPHORE_COUNT

SemaphoreIndexBad(semaphore_index) == semaphore_index > V1_SEMAPHORE_COUNT

\* if (event_index > V1_EVENTS_COUNT)
EventIndexBad(event_index) == event_index > V1_EVENTS_COUNT

nc_semaphore_read(nc_id, semaphore_index, ok, value) ==
    IF SemaphoreIndexBad(semaphore_index) THEN SyncRes(-EINVAL, <<>>, NO_RESULT)
    ELSE LET base == nc_get_semaphore_base(nc_id)
             addr == AddrAdd(base, MMAP_NC_SEMA_READ_OFFSET
                                   + (semaphore_index * NC_SEMAPHORE_SIZE))
         IN fw_io_read_csr_array(addr, ok, value)

nc_semaphore_write(nc_id, semaphore_index, value) ==
    IF SemaphoreIndexBad(semaphore_index) THEN SyncRes(-EINVAL, <<>>, NO_RESULT)
    ELSE LET base == nc_get_semaphore_base(nc_id)
             addr == AddrAdd(base, MMAP_NC_SEMA_SET_OFFSET
                                   + (semaphore_index * NC_SEMAPHORE_SIZE))
         IN writel(value, addr)

nc_semaphore_increment(nc_id, semaphore_index, value) ==
    IF SemaphoreIndexBad(semaphore_index) THEN SyncRes(-EINVAL, <<>>, NO_RESULT)
    ELSE LET base == nc_get_semaphore_base(nc_id)
             addr == AddrAdd(base, MMAP_NC_SEMA_INCR_OFFSET
                                   + (semaphore_index * NC_SEMAPHORE_SIZE))
         IN writel(value, addr)

nc_semaphore_decrement(nc_id, semaphore_index, value) ==
    IF SemaphoreIndexBad(semaphore_index) THEN SyncRes(-EINVAL, <<>>, NO_RESULT)
    ELSE LET base == nc_get_semaphore_base(nc_id)
             addr == AddrAdd(base, MMAP_NC_SEMA_DECR_OFFSET
                                   + (semaphore_index * NC_SEMAPHORE_SIZE))
         IN writel(value, addr)

nc_event_get(nc_id, event_index, ok, value) ==
    IF EventIndexBad(event_index) THEN SyncRes(-EINVAL, <<>>, NO_RESULT)
    ELSE fw_io_read_csr_array(nc_get_event_addr(nc_id, event_index), ok, value)

nc_event_set(nc_id, event_index, value) ==
    IF EventIndexBad(event_index) THEN SyncRes(-EINVAL, <<>>, NO_RESULT)
    ELSE writel(value, nc_get_event_addr(nc_id, event_index))

\* u8 nc_id: the first and the last core, the first value past the last core
\* and the largest u8
SyncCores == {0, V1_NC_PER_DEVICE - 1, V1_NC_PER_DEVICE, U8_MOD - 1}

\* u16 index around a count
SyncIndexes(count) == {0, 1, count - 1, count, count + 1, U16_MAX}

\* u32 value written, or read from the device
SyncValues == {0, 1, 7}

NoSync ==
    [op |-> "none", nc_id |-> 0, index |-> 0, value |-> 0,
     ret |-> 0, accesses |-> <<>>, result |-> NO_RESULT]

SyncCall(op, nc_id, index, value, r) ==
    [op |-> op, nc_id |-> nc_id, index |-> index, value |-> value,
     ret |-> r.ret, accesses |-> r.accesses, result |-> r.result]

SyncUnused == sync = NoSync

NcSemaphoreRead ==
    /\ sync = NoSync
    /\ \E nc_id \in SyncCores, i \in SyncIndexes(V1_SEMAPHORE_COUNT), ok \in BOOLEAN,
          value \in SyncValues :
        sync' = SyncCall("semaphore_read", nc_id, i, 0, nc_semaphore_read(nc_id, i, ok, value))
    /\ UNCHANGED <<dev_vars, codec_vars>>

NcSemaphoreWrite ==
    /\ sync = NoSync
    /\ \E nc_id \in SyncCores, i \in SyncIndexes(V1_SEMAPHORE_COUNT), value \in SyncValues :
        sync' = SyncCall("semaphore_write", nc_id, i, value, nc_semaphore_write(nc_id, i, value))
    /\ UNCHANGED <<dev_vars, codec_vars>>

NcSemaphoreIncrement ==
    /\ sync = NoSync
    /\ \E nc_id \in SyncCores, i \in SyncIndexes(V1_SEMAPHORE_COUNT), value \in SyncValues :
        sync' = SyncCall("semaphore_increment", nc_id, i, value,
                         nc_semaphore_increment(nc_id, i, value))
    /\ UNCHANGED <<dev_vars, codec_vars>>

NcSemaphoreDecrement ==
    /\ sync = NoSync
    /\ \E nc_id \in SyncCores, i \in SyncIndexes(V1_SEMAPHORE_COUNT), value \in SyncValues :
        sync' = SyncCall("semaphore_decrement", nc_id, i, value,
                         nc_semaphore_decrement(nc_id, i, value))
    /\ UNCHANGED <<dev_vars, codec_vars>>

NcEventGet ==
    /\ sync = NoSync
    /\ \E nc_id \in SyncCores, i \in SyncIndexes(V1_EVENTS_COUNT), ok \in BOOLEAN,
          value \in SyncValues :
        sync' = SyncCall("event_get", nc_id, i, 0, nc_event_get(nc_id, i, ok, value))
    /\ UNCHANGED <<dev_vars, codec_vars>>

NcEventSet ==
    /\ sync = NoSync
    /\ \E nc_id \in SyncCores, i \in SyncIndexes(V1_EVENTS_COUNT), value \in SyncValues :
        sync' = SyncCall("event_set", nc_id, i, value, nc_event_set(nc_id, i, value))
    /\ UNCHANGED <<dev_vars, codec_vars>>

\* the caller takes the result
SyncReturn ==
    /\ sync # NoSync
    /\ sync' = NoSync
    /\ UNCHANGED <<dev_vars, codec_vars>>

-----------------------------------------------------------------------------
(* Specifications *)

\* the device under any sequence of lifecycle calls with arbitrary arguments
Init == DevInit /\ CodecUnused /\ SyncUnused

Next ==
    \/ NcNqInit(ArgQueues)
    \/ NcNqDestroy(ArgQueues)
    \/ NcNqDestroyAll
    \/ NcNqMmap(ArgQueues)
    \/ Return

Spec == Init /\ [][Next]_vars

\* the device under any sequence of lifecycle calls whose identifiers are all
\* inside their bounds
NextIn ==
    \/ NcNqInit(ArgQueuesIn)
    \/ NcNqDestroy(ArgQueuesIn)
    \/ NcNqDestroyAll
    \/ NcNqMmap(ArgQueuesIn)
    \/ Return

SpecIn == Init /\ [][NextIn]_vars

\* the codec applied to argument triples and offsets
CodecInit ==
    /\ DevInit
    /\ SyncUnused
    /\ c_res = CodecIdle
    /\ \/ c_in \in CodecTriples /\ c_in2 \in CodecTriples2 /\ c_off = U64(0, 0)
       \/ c_in = <<0, 0, 0>> /\ c_in2 = <<0, 0, 0>> /\ c_off \in CodecOffsets

CodecNext == Encode1 \/ Encode2 \/ DecodeEncoded \/ Decode \/ ReEncode

CodecSpec == CodecInit /\ [][CodecNext]_vars

\* the semaphore and event accessors called with arbitrary arguments
SyncNext ==
    \/ NcSemaphoreRead
    \/ NcSemaphoreWrite
    \/ NcSemaphoreIncrement
    \/ NcSemaphoreDecrement
    \/ NcEventGet
    \/ NcEventSet
    \/ SyncReturn

SyncSpec == Init /\ [][SyncNext]_vars

-----------------------------------------------------------------------------
(* Claims about the codec, checked under CodecSpec *)

\* number of 1 GiB windows of the device: one per (core, engine, type)
WindowCount == V1_NC_PER_DEVICE * MAX_NQ_ENGINE * NQ_TYPE_PER_ENGINE

\* C1: for every triple with each identifier inside its bound the encoder
\* succeeds, and decoding the offset it produced succeeds and gives back
\* exactly the triple.
Thm_C1_RoundTrip ==
    (InBounds(c_in) /\ c_res.enc1 # NONE) =>
        /\ c_res.enc1.ret = 0
        /\ c_res.enc1.offset # UNSET
        /\ (c_res.rt # NONE => c_res.rt.ret = 0 /\ c_res.rt.nq = c_in)

\* an in-bounds triple with no zero component went through encode and decode
Wit_C1_RoundTrip ==
    /\ InBounds(c_in)
    /\ c_in[1] > 0 /\ c_in[2] > 0 /\ c_in[3] > 0
    /\ c_res.rt # NONE
    /\ c_res.rt.ret = 0
    /\ c_res.rt.nq = c_in

\* C2: the decoder succeeds exactly on the offsets below the end of the
\* device's range and fails with -EINVAL on every other; an accepted offset o
\* gives a triple inside the bounds whose encoding e has o - 1 GiB < e <= o.
Thm_C2_DecodeRange ==
    c_res.dec # NONE =>
        /\ (c_res.dec.ret = 0) <=> (c_off[1] >= 0 /\ c_off[1] < WindowCount)
        /\ c_res.dec.ret # 0 => (c_res.dec.ret = -EINVAL /\ c_res.dec.nq = NO_TRIPLE)
        /\ c_res.dec.ret = 0 => InBounds(c_res.dec.nq)
        /\ c_res.re # NONE =>
              /\ c_res.re.ret = 0
              /\ U64Leq(c_res.re.offset, c_off)
              /\ U64Less(c_off, U64Add(c_res.re.offset, NC_NQ_MMAP_SIZE_PER_NQ))

\* the last byte of the last window was decoded and its triple encoded again
Wit_C2_DecodeRange ==
    /\ c_off = U64(WindowCount - 1, U64_LO - 1)
    /\ c_res.re # NONE
    /\ c_res.re.ret = 0
    /\ c_res.re.offset = U64(WindowCount - 1, 0)

\* C3: the encoder returns -EINVAL, and writes no offset, whenever an
\* identifier is at or past its bound, and succeeds when all three are inside.
Cex_C3_EncodeRejects ==
    c_res.enc1 # NONE =>
        IF InBounds(c_in)
        THEN c_res.enc1.ret = 0
        ELSE c_res.enc1.ret = -EINVAL /\ c_res.enc1.offset = UNSET

\* C4: two distinct triples the encoder accepts get offsets at least one
\* window (1 GiB) apart.
Cex_C4_WindowsDisjoint ==
    (/\ c_res.enc1 # NONE /\ c_res.enc2 # NONE
     /\ c_res.enc1.ret = 0 /\ c_res.enc2.ret = 0
     /\ c_in # c_in2) =>
        \/ U64Leq(U64Add(c_res.enc1.offset, NC_NQ_MMAP_SIZE_PER_NQ), c_res.enc2.offset)
        \/ U64Leq(U64Add(c_res.enc2.offset, NC_NQ_MMAP_SIZE_PER_NQ), c_res.enc1.offset)

-----------------------------------------------------------------------------
(* Claims about the NQ lifecycle *)

\* the arguments of the call that has just returned
LastQueue == <<last.nc_id, last.eng_index, last.nq_type>>

\* the events of the last call that are successful allocations
LastAllocs == {i \in DOMAIN last.trace : last.trace[i][1] = "mc_alloc" /\ last.trace[i][2] = 0}

\* the events of the last call that are register writes
LastWrites == {i \in DOMAIN last.trace : last.trace[i][1] = "write"}

\* the events of the last call that release a chunk
LastFrees == {i \in DOMAIN last.trace : last.trace[i][1] = "mc_free"}

\* the chunks that are allocated for a slot and not released
LiveChunksOf(nc_id, nq_id) ==
    {i \in DOMAIN mpset : mpset[i].live /\ mpset[i].owner = <<nc_id, nq_id>>}

\* C5 (under Spec): nc_nq_init on a slot that already holds a chunk does not
\* call the allocator and leaves that chunk in the slot; when the queue type is
\* one of the four known types it returns 0 having written cfg_0, cfg_1 and
\* cfg_2 of the queue again, with the chunk's address and the size argument.
\* No slot ever has more than one chunk allocated for it and not yet released.
Thm_C5_InitReusesChunk ==
    /\ (last.op = "init" /\ last.slot_before # NULL) =>
          /\ \A i \in DOMAIN last.trace : last.trace[i][1] # "mc_alloc"
          /\ nq_mc[last.nc_id][NqId(last.eng_index, last.nq_type)] = last.slot_before
          /\ last.nq_type \in KnownTypes =>
                LET key == RegKey(last.nc_id, last.eng_index, last.nq_type)
                    pa == PaOr(mpset[last.slot_before].pa, PCIEX8_0_BASE)
                IN /\ last.ret = 0
                   /\ last.trace = << <<"write", key, "cfg_0", pa.low>>,
                                      <<"write", key, "cfg_1", pa.high>>,
                                      <<"write", key, "cfg_2", last.size>> >>
    /\ \A c \in Cores, q \in NqIds : Cardinality(LiveChunksOf(c, q)) <= 1

\* an init found a chunk created with another size in the slot and wrote the
\* three registers
Wit_C5_InitReusesChunk ==
    /\ last.op = "init"
    /\ last.slot_before # NULL
    /\ last.nq_type \in KnownTypes
    /\ mpset[last.slot_before].size # last.size
    /\ Len(last.trace) = 3
    /\ Len(mpset) = 1

\* C6 (under Spec): nc_nq_destroy with all three identifiers inside their
\* bounds on a slot that holds no chunk returns 0 and changes no register, no
\* slot and no chunk of the allocator (so a second destroy changes nothing).
Thm_C6_DestroyEmptyIsNoop ==
    [][(/\ last'.op = "destroy"
        /\ last.op = "none"
        /\ InBounds(<<last'.nc_id, last'.eng_index, last'.nq_type>>)
        /\ last'.slot_before = NULL)
       => (/\ last'.ret = 0
           /\ last'.trace = <<>>
           /\ nq_mc' = nq_mc
           /\ regs' = regs
           /\ mpset' = mpset
           /\ vmas' = vmas)]_vars

\* a destroy of an in-bounds queue returned 0 on an empty slot whose chunk an
\* earlier destroy had released
Wit_C6_DestroyEmptyIsNoop ==
    /\ last.op = "destroy"
    /\ InBounds(LastQueue)
    /\ last.slot_before = NULL
    /\ last.ret = 0
    /\ \E i \in DOMAIN mpset :
          /\ ~mpset[i].live
          /\ mpset[i].owner = <<last.nc_id, NqId(last.eng_index, last.nq_type)>>

\* the physical address of the first byte of page frame pfn
PfnPa(pfn) == Pa(pfn \div PFN_PER_HIGH, (pfn % PFN_PER_HIGH) * PAGE_SIZE)

\* C7 (under SpecIn: every call has its identifiers inside their bounds):
\* nc_nq_mmap returns -EINVAL and maps nothing when the queue was never
\* initialised or its most recent successful init/destroy call was a destroy;
\* when it was an init and neither the injected fault nor remap_pfn_range
\* fails, it returns 0 and maps the chunk's physical address for the chunk's
\* size with VM_DONTEXPAND, VM_DONTDUMP and VM_DONTCOPY set.
Thm_C7_MmapFollowsLifecycle ==
    (last.op = "mmap" /\ InBounds(LastQueue)) =>
        /\ LastQueue \notin inited =>
              (last.ret = -EINVAL /\ ~last.vma.mapped)
        /\ (LastQueue \in inited /\ last.outcome = "ok") =>
              /\ last.ret = 0
              /\ last.vma.mapped
              /\ last.slot_before # NULL
              /\ mpset[last.slot_before].live
              /\ PfnPa(last.vma.pfn) = mpset[last.slot_before].pa
              /\ last.vma.size = mpset[last.slot_before].size
              /\ {"VM_DONTEXPAND", "VM_DONTDUMP", "VM_DONTCOPY"} \subseteq last.vma.vm_flags
              /\ [pfn |-> last.vma.pfn, size |-> last.vma.size] \in vmas

\* an mmap of an initialised queue succeeded while another queue's chunk had
\* already been released
Wit_C7_MmapFollowsLifecycle ==
    /\ last.op = "mmap"
    /\ InBounds(LastQueue)
    /\ LastQueue \in inited
    /\ last.ret = 0
    /\ last.vma.mapped
    /\ last.vma.size = 2 * PAGE_SIZE

\* C8 (under Spec): nc_nq_destroy_all calls nc_nq_destroy once for every
\* (core, engine, type) inside the bounds, whatever the calls return, and
\* when it returns every slot is empty and every chunk the allocator ever
\* handed out has been released exactly once.
Thm_C8_DestroyAllReleasesAll ==
    /\ last.op = "destroy_all" =>
          /\ Len(last.calls) = WindowCount
          /\ {last.calls[i][1] : i \in DOMAIN last.calls}
                = Cores \X (0 .. (MAX_NQ_ENGINE - 1)) \X (0 .. (NQ_TYPE_PER_ENGINE - 1))
          /\ \A c \in Cores, q \in NqIds : nq_mc[c][q] = NULL
          /\ \A i \in DOMAIN mpset : ~mpset[i].live /\ mpset[i].frees = 1
    /\ \A i \in DOMAIN mpset : mpset[i].frees <= 1 /\ (mpset[i].live => mpset[i].frees = 0)

\* a destroy_all found chunks in two slots and released both
Wit_C8_DestroyAllReleasesAll ==
    /\ last.op = "destroy_all"
    /\ Cardinality(LastFrees) = 2
    /\ Cardinality({mpset[i].owner : i \in DOMAIN mpset}) = 2
    /\ \A c \in Cores, q \in NqIds : nq_mc[c][q] = NULL

\* C9: nc_nq_init, nc_nq_destroy and nc_nq_mmap return -EINVAL, and allocate,
\* write, release and map nothing, whenever the core id or the engine index is
\* at or past its bound, or the type is none of the four known types, or the
\* queue identity is at or past MAX_NQ_SUPPORTED.
Cex_C9_RejectsOutOfBounds ==
    (/\ last.op \in {"init", "destroy", "mmap"}
     /\ \/ last.nc_id >= V1_NC_PER_DEVICE
        \/ last.eng_index >= MAX_NQ_ENGINE
        \/ last.nq_type \notin KnownTypes
        \/ NqId(last.eng_index, last.nq_type) >= MAX_NQ_SUPPORTED)
    => (last.ret = -EINVAL /\ last.trace = <<>> /\ ~last.vma.mapped)

\* C10: an nc_nq_init that returns non-zero has allocated no chunk, written
\* no register and left the slot as it was.
Cex_C10_FailedInitNoEffect ==
    (last.op = "init" /\ last.ret # 0) =>
        /\ LastAllocs = {}
        /\ LastWrites = {}
        /\ SlotOf(nq_mc, last.nc_id, last.eng_index, last.nq_type) = last.slot_before

-----------------------------------------------------------------------------
(* Claims about the semaphore and event accessors, checked under SyncSpec *)

SyncIsSemaphore == sync.op \in {"semaphore_read", "semaphore_write", "semaphore_increment",
                               "semaphore_decrement"}

\* the count the index of the call is compared with
SyncCount == IF SyncIsSemaphore THEN V1_SEMAPHORE_COUNT ELSE V1_EVENTS_COUNT

\* offset of the register block the call addresses inside the core's block
SyncBlockOffset ==
    CASE sync.op = "semaphore_read" -> MMAP_NC_SEMA_READ_OFFSET
      [] sync.op = "semaphore_write" -> MMAP_NC_SEMA_SET_OFFSET
      [] sync.op = "semaphore_increment" -> MMAP_NC_SEMA_INCR_OFFSET
      [] sync.op = "semaphore_decrement" -> MMAP_NC_SEMA_DECR_OFFSET
      [] OTHER -> MMAP_NC_EVENT_OFFSET

\* C11: a semaphore call returns -EINVAL exactly when semaphore_index >
\* V1_SEMAPHORE_COUNT and an event call exactly when event_index >
\* V1_EVENTS_COUNT; a rejected call makes no register access; an accepted call
\* (index == COUNT included) makes exactly one, a read for read/get and a
\* write of the value otherwise, at base(core) + block offset + index * 4.
Thm_C11_IndexCheck ==
    sync # NoSync =>
        /\ (sync.ret = -EINVAL) <=> (sync.index > SyncCount)
        /\ sync.index > SyncCount => sync.accesses = <<>>
        /\ sync.index <= SyncCount =>
            /\ Len(sync.accesses) = 1
            /\ sync.accesses[1][2] = [nc |-> sync.nc_id, off |-> SyncBlockOffset + sync.index * 4]
            /\ sync.accesses[1][1] =
                   (IF sync.op \in {"semaphore_read", "event_get"} THEN "read" ELSE "write")
            /\ sync.accesses[1][1] = "write" => sync.accesses[1][3] = sync.value

\* a semaphore call with index == COUNT that was accepted
Wit_C11_IndexCheck ==
    /\ sync.op = "semaphore_decrement"
    /\ sync.index = V1_SEMAPHORE_COUNT
    /\ sync.ret = 0
    /\ Len(sync.accesses) = 1

\* C12: every semaphore and event call with nc_id >= V1_NC_PER_DEVICE returns
\* -EINVAL without any register access, and no call accesses a register
\* outside the blocks of cores 0 .. V1_NC_PER_DEVICE - 1.
Cex_C12_CoreCheck ==
    sync # NoSync =>
        /\ sync.nc_id >= V1_NC_PER_DEVICE => (sync.ret = -EINVAL /\ sync.accesses = <<>>)
        /\ \A i \in DOMAIN sync.accesses : sync.accesses[i][2].nc \in Cores

-----------------------------------------------------------------------------
(* Claims about the order of events inside one call, checked under Spec *)

\* event i of the trace is a write of value to register field of triplet key
IsWrite(trace, i, key, field, value) ==
    i \in DOMAIN trace /\ trace[i] = <<"write", key, field, value>>

\* the release at position i of the trace comes right after the writes of 0
\* to cfg_2 (size), cfg_0 (address low), cfg_1 (address high) of one register
\* triplet, in this order, and the drain delay
ReleaseInOrder(trace, i) ==
    /\ i >= 5
    /\ trace[i - 1] = <<"msleep", 1>>
    /\ \E key \in {trace[i - 4][2]} :
        /\ IsWrite(trace, i - 4, key, "cfg_2", 0)
        /\ IsWrite(trace, i - 3, key, "cfg_0", 0)
        /\ IsWrite(trace, i - 2, key, "cfg_1", 0)

\* C13 (under Spec): an nc_nq_destroy call of one of the four queue types that
\* finds a chunk in the slot writes 0 to the size register, then to address
\* low, then to address high of the queue's triplet, then sleeps, then
\* releases the chunk, and the slot is empty afterwards; every release, also
\* inside nc_nq_destroy_all, comes after the three writes and the delay.
Thm_C13_DestroyOrder ==
    /\ \A i \in LastFrees : ReleaseInOrder(last.trace, i)
    /\ (last.op = "destroy" /\ last.slot_before # NULL /\ last.nq_type \in KnownTypes
        /\ last.nc_id \in Cores) =>
        LET key == RegKey(last.nc_id, last.eng_index, last.nq_type) IN
        /\ last.ret = 0
        /\ Len(last.trace) = 5
        /\ IsWrite(last.trace, 1, key, "cfg_2", 0)
        /\ IsWrite(last.trace, 2, key, "cfg_0", 0)
        /\ IsWrite(last.trace, 3, key, "cfg_1", 0)
        /\ last.trace[4] = <<"msleep", 1>>
        /\ last.trace[5] = <<"mc_free", last.slot_before>>
        /\ RegRead(regs, key) = RegZero
        /\ ~mpset[last.slot_before].live
        /\ SlotOf(nq_mc, last.nc_id, last.eng_index, last.nq_type) = NULL

\* an nc_nq_destroy of an ERROR queue that released the queue's chunk
Wit_C13_DestroyOrder ==
    /\ last.op = "destroy"
    /\ last.nq_type = NQ_TYPE_ERROR
    /\ last.slot_before # NULL
    /\ Cardinality(LastFrees) = 1

\* C14 (under Spec): in every nc_nq_init call that returns 0 the slot holds a
\* live chunk before the first register write (it was there at entry, or the
\* allocation is the first event of the call), and the call then writes, in
\* this order, address low, address high and size of the queue's triplet,
\* the address being the two 32-bit halves of (chunk pa | PCIEX8_0_BASE).
Thm_C14_InitOrder ==
    (last.op = "init" /\ last.ret = 0) =>
        LET mc == SlotOf(nq_mc, last.nc_id, last.eng_index, last.nq_type)
            key == RegKey(last.nc_id, last.eng_index, last.nq_type)
            n == Len(last.trace)
        IN /\ last.nq_type \in KnownTypes
           /\ mc # NULL
           /\ mpset[mc].live
           /\ last.slot_before = NULL => (n = 4 /\ last.trace[1] = <<"mc_alloc", 0, mc>>)
           /\ last.slot_before # NULL => (n = 3 /\ mc = last.slot_before)
           /\ \E pa \in {PaOr(mpset[mc].pa, PCIEX8_0_BASE)} :
               /\ IsWrite(last.trace, n - 2, key, "cfg_0", pa.low)
               /\ IsWrite(last.trace, n - 1, key, "cfg_1", pa.high)
               /\ IsWrite(last.trace, n, key, "cfg_2", last.size)

\* a successful nc_nq_init of an EVENT queue that allocated the chunk
Wit_C14_InitOrder ==
    /\ last.op = "init"
    /\ last.ret = 0
    /\ last.nq_type = NQ_TYPE_EVENT
    /\ last.slot_before = NULL
    /\ Len(last.trace) = 4

-----------------------------------------------------------------------------
(* Claims about the registers and the chunks in every reachable state *)

\* every (nc_id, eng_index, nq_type) with each identifier inside its bound
QueuesIn == Cores \X (0 .. (MAX_NQ_ENGINE - 1)) \X KnownTypes

\* the register triplets of the queues of QueuesIn
QueueRegKeys == {RegKey(q[1], q[2], q[3]) : q \in QueuesIn}

\* the queues programmed through register triplet key: one TRACE or NOTIFY
\* queue, or the EVENT or ERROR queues of all engines of one core
QueuesOfKey(key) == {q \in QueuesIn : RegKey(q[1], q[2], q[3]) = key}

\* C15 (under SpecIn): whenever the size register of a queue is non-zero, it
\* equals the size of the chunk held in the slot of a queue the register
\* belongs to.
Cex_C15_SizeRegisterIsChunkSize ==
    \A key \in QueueRegKeys :
        RegRead(regs, key).cfg_2 # 0 =>
            \E q \in QueuesOfKey(key) :
                /\ SlotOf(nq_mc, q[1], q[2], q[3]) # NULL
                /\ mpset[SlotOf(nq_mc, q[1], q[2], q[3])].size = RegRead(regs, key).cfg_2

\* the chunks held by the slots of nq_mc
HeldChunks == {nq_mc[c][n] : c \in Cores, n \in NqIds} \ {NULL}

\* C16 (under Spec): whenever a register triplet has a non-zero size, its
\* address registers hold the device address (pa | PCIEX8_0_BASE) of a chunk
\* that a slot of nq_mc holds and that has not been released.
Cex_C16_RegistersPointAtLiveChunk ==
    \A key \in DOMAIN regs :
        regs[key].cfg_2 # 0 =>
            \E mc \in HeldChunks :
                /\ mpset[mc].live
                /\ PaOr(mpset[mc].pa, PCIEX8_0_BASE) = Pa(regs[key].cfg_1, regs[key].cfg_0)

\* C17 (under SpecIn): an nc_nq_init or nc_nq_destroy call on one queue leaves
\* the slot and the register triplet of every other queue that holds a chunk
\* (on another core, or with another queue identity on the same core) as they
\* were.
Cex_C17_QueuesIndependent ==
    [][\A q \in QueuesIn :
        (/\ last'.op \in {"init", "destroy"}
         /\ <<last'.nc_id, NqId(last'.eng_index, last'.nq_type)>> # <<q[1], NqId(q[2], q[3])>>
         /\ SlotOf(nq_mc, q[1], q[2], q[3]) # NULL)
        => /\ SlotOf(nq_mc', q[1], q[2], q[3]) = SlotOf(nq_mc, q[1], q[2], q[3])
           /\ RegRead(regs', RegKey(q[1], q[2], q[3])) = RegRead(regs, RegKey(q[1], q[2], q[3]))]_vars

\* the slots of nq_mc that reference chunk mc
SlotsHolding(mc) == {sl \in Cores \X NqIds : nq_mc[sl[1]][sl[2]] = mc}

\* C18 (under Spec): the chunks allocated and not yet released are exactly the
\* chunks the non-empty slots of nq_mc reference, every one of them is in
\* exactly one slot, and no slot references a released chunk; no chunk is
\* released twice.
Thm_C18_SlotsOwnLiveChunks ==
    /\ {mc \in DOMAIN mpset : mpset[mc].live} = HeldChunks
    /\ \A mc \in HeldChunks : Cardinality(SlotsHolding(mc)) = 1
    /\ \A mc \in DOMAIN mpset : mpset[mc].frees = (IF mpset[mc].live THEN 0 ELSE 1)

\* one chunk has been released and another is held by a slot
Wit_C18_SlotsOwnLiveChunks ==
    /\ Len(mpset) = 2
    /\ \E a, b \in DOMAIN mpset : ~mpset[a].live /\ mpset[b].live /\ b \in HeldChunks

-----------------------------------------------------------------------------
(* Claims about allocator failure and about mappings *)

\* the mc_alloc calls of the call that has just returned
LastAllocAttempts == {i \in DOMAIN last.trace : last.trace[i][1] = "mc_alloc"}

\* C19 (under Spec): an nc_nq_init on an empty slot whose mc_alloc fails
\* returns the allocator's error code, calls mc_alloc once, writes no
\* register and leaves the slot empty; the next nc_nq_init on the same queue
\* that finds the slot still empty calls mc_alloc again.
Thm_C19_AllocFailurePropagates ==
    /\ AllocFailed(last) =>
        /\ last.slot_before = NULL
        /\ last.ret = last.trace[1][2]
        /\ last.ret = -ENOMEM
        /\ Len(last.trace) = 1
        /\ SlotOf(nq_mc, last.nc_id, last.eng_index, last.nq_type) = NULL
    /\ last.op = "init" => Cardinality(LastAllocAttempts) <= 1
    /\ (last.op = "init" /\ LastQueue \in failed /\ last.slot_before = NULL) =>
        LastAllocAttempts = {1}

\* an nc_nq_init that allocated the chunk after the previous nc_nq_init on the
\* same queue had failed in the allocator
Wit_C19_AllocFailurePropagates ==
    /\ last.op = "init"
    /\ LastQueue \in failed
    /\ LastQueue \in ArgQueuesIn
    /\ last.slot_before = NULL
    /\ last.ret = 0
    /\ LastAllocs = {1}

\* C20 (under SpecIn): every mapping established by nc_nq_mmap refers to the
\* physical memory of a chunk that has not been released.
Cex_C20_MappingNeverOutlivesChunk ==
    \A v \in vmas :
        \E mc \in DOMAIN mpset :
            /\ mpset[mc].live
            /\ PHYS_PFN(mpset[mc].pa) = v.pfn

====
